---- MODULE Spec2Model ----
(***************************************************************************)
(* Model of the bounded lock-free ring queue (src/queue.hpp), of the       *)
(* producer driver (src/queue_producer.hpp) and of the threads that call   *)
(* them.  Every atomic load, store, compare-exchange and exchange of the   *)
(* source is one step of the thread that performs it; steps of different   *)
(* threads interleave.  Thread-local work (index arithmetic, new/delete of *)
(* a node nobody else can reach) is folded into the atomic step that       *)
(* precedes or follows it.                                                 *)
(***************************************************************************)
EXTENDS Integers, Sequences, FiniteSets, TLC

\* ------------------------------------------------------------------ bounds
\* Template parameter Capacity of LockFreeRingQueue, scaled down: the smallest
\* legal capacity for the runs with several producers and several consumers,
\* a larger one for the runs with at most one thread of each kind.
SmallCapacity == 2
LargeCapacity == 3
\* Number of push calls in a run with several producers and consumers (each
\* call pushes a fresh value).
MaxPush == 3
\* Number of push calls in a run with one producer.
MaxPushOne == 5
\* Number of push calls in a run with a producer, a consumer and a reader.
MaxPushPeek == 3
\* Number of values the generator callback hands out in a run of a producer
\* driver.
MaxGenerate == 4
\* Number of values the generator callback hands out in a run in which the
\* backoff of a producer driver climbs to its ceiling.
MaxGenerateSpin == 18
\* The ceiling of the exponential backoff, queue_producer.hpp:158.
BackoffCeiling == 16384
\* Constructor argument block_size of MemoryPool, scaled down.
BlockSize == 2
\* sizeof(T) of the pooled type, in bytes.
SizeofT == 2
\* Number of objects of a MemoryPool that are live at once.
MaxLive == 5
\* Number of calls in a single-threaded run.
MaxSeqOps == 6

\* ------------------------------------------------------------------ names
Null == 0          \* nullptr in a slot / in a local pointer
None == 0          \* std::nullopt (payload values are >= 1)

Producers == {"p1", "p2"}
Consumers == {"c1", "c2"}
Observers == {"o1"}
SeqThread == "s"
Threads == Producers \cup Consumers \cup Observers \cup {SeqThread}

VARIABLES
    Capacity,       \* template parameter Capacity, fixed at construction
    buffer_,        \* std::array<std::atomic<T*>, Capacity>: slot -> node or Null
    read_index_,    \* std::atomic<size_t>
    write_index_,   \* std::atomic<size_t>
    heap,           \* live heap nodes (new T ... delete): node -> payload
    pc,             \* position of every thread
    loc,            \* locals and last return value of every thread
    nPush,          \* number of push calls made so far (the next value to push)
    accepted,       \* history: payloads whose slot CAS succeeded, in CAS order
    popped,         \* history: payloads returned by pop, in return order
    log,            \* history: completed calls of the single-threaded caller
    peek,           \* history: per thread, its previous read_at call and whether
                    \* a pop or a push has written the queue since
    drv,            \* LockFreeQueueProducer and LockFreeQueueReader objects:
                    \* fields, locals of produce() / observe() and history of
                    \* each driver
    pool            \* a MemoryPool object: its fields and history

vars == <<Capacity, buffer_, read_index_, write_index_, heap, pc, loc, nPush,
          accepted, popped, log, peek, drv, pool>>

queue == <<Capacity, buffer_, read_index_, write_index_>>

Slots == 0 .. (Capacity - 1)

\* ------------------------------------------------------------------ helpers
InitLoc == [value |-> 0, current_write |-> 0, next_write |-> 0, new_data |-> Null,
            current_read |-> 0, data |-> Null, index |-> 0, dangling |-> FALSE,
            seen |-> None,
            op |-> "none", ok |-> FALSE, res |-> None, why |-> "none"]

\* history of one thread's read_at calls: the call before the last one (has,
\* index, ok, res), whether no pop / no push has written the queue since that
\* call began (popFree, pushFree) and since the last call began (curPopFree,
\* curPushFree)
InitPeek == [has |-> FALSE, index |-> 0, ok |-> FALSE, res |-> None,
             popFree |-> FALSE, pushFree |-> FALSE,
             curPopFree |-> FALSE, curPushFree |-> FALSE]

PeekAfterPop == [t \in Threads |-> [peek[t] EXCEPT !.popFree = FALSE,
                                                    !.curPopFree = FALSE]]

PeekAfterPush == [t \in Threads |-> [peek[t] EXCEPT !.pushFree = FALSE,
                                                     !.curPushFree = FALSE]]

\* next_write = (current_write + 1) % Capacity, queue.hpp:308
PushNextWrite(current_write) == (current_write + 1) % Capacity

\* mutant: the read index is advanced by two
PopNextReadSkips(current_read) == (current_read + 2) % Capacity

\* (current_read + 1) % Capacity, queue.hpp:381
PopNextRead(current_read) == (current_read + 1) % Capacity

\* mutant: the full test is left out
IsFullNever(next_write, r) == FALSE

\* mutant: the full test keeps two slots free instead of one
IsFullTwoGaps(next_write, r) == next_write = r \/ (next_write + 1) % Capacity = r

\* the full test of push, queue.hpp:311
IsFull(next_write, r) == next_write = r

\* mutant: the empty test is inverted
IsEmptyInverted(current_read, w) == current_read # w

\* the empty test of pop, queue.hpp:366
IsEmpty(current_read, w) == current_read = w

\* mutant: the compare-and-swap succeeds whatever the slot holds
CasSucceedsAlways(slot) == TRUE

\* compare_exchange_strong(expected = nullptr, new_data) on a slot succeeds
\* exactly when the slot holds nullptr, queue.hpp:330-336
CasSucceeds(slot) == slot = Null

\* mutant: the slot is loaded, not exchanged with nullptr
ExchangeKeepsSlot(buf, i) == buf

\* the slots after buffer_[i].exchange(nullptr), queue.hpp:373
Exchange(buf, i) == [buf EXCEPT ![i] = Null]

\* mutant: the address of the node is returned in place of its payload
PayloadIsAddress(h, p) == p

\* std::move(*data): the payload stored in a live node, queue.hpp:383
Payload(h, p) == h[p]

\* operator new: an address that is not live
FreshNode == CHOOSE n \in 1 .. (Cardinality(DOMAIN heap) + 1) :
                /\ n \notin DOMAIN heap
                /\ \A m \in 1 .. (n - 1) : m \in DOMAIN heap

\* delete p
Delete(h, p) == [n \in (DOMAIN h) \ {p} |-> h[n]]

\* new T(v) at address p
Alloc(h, p, v) == [n \in (DOMAIN h) \cup {p} |-> IF n = p THEN v ELSE h[n]]

\* a LockFreeQueueProducer after construction, queue_producer.hpp:100-104 and
\* 172-178; backoff and was_full are the locals of produce(), data the value
\* its current iteration holds; stopping: a stop() call is blocked in join();
\* generated, excused and full_calls are history (the values data_generator_
\* returned, the values in flight at a stop(), the calls of on_queue_full_),
\* and so are fails (the failed pushes since the worker started or last
\* succeeded), workers (the worker threads that exist) and last (the last
\* start() or stop() call and whether it found the flag set)
InitDriver == [running_ |-> FALSE, producer_thread_ |-> FALSE, stopping |-> FALSE,
               backoff |-> 1, was_full |-> FALSE, data |-> 0,
               generated |-> <<>>, excused |-> {}, full_calls |-> 0,
               fails |-> 0, workers |-> 0, last |-> "none"]

\* a LockFreeQueueReader after construction, queue_observer.hpp:23-25 and
\* 91-92; current_pos, backoff and was_empty are the locals of observe();
\* stopping: a stop() call is blocked in join(); handled is history (the
\* values the current worker thread has passed to on_data), and so are
\* misses (the read_at calls that returned nothing since the worker started
\* or last got a value: 0, 1, or 2 for two and more), workers and last (as
\* for a producer)
InitReader == [running_ |-> FALSE, observer_thread_ |-> FALSE, stopping |-> FALSE,
               current_pos |-> 0, backoff |-> 1, was_empty |-> FALSE,
               handled |-> <<>>, misses |-> 0, workers |-> 0, last |-> "none"]

\* where a returning call continues: in produce() when the caller is the
\* worker thread of a producer driver (queue_producer.hpp:124), in observe()
\* when it is the worker thread of a reader (queue_observer.hpp:44), else in
\* a thread that calls the queue directly
Caller(t) == IF t \in Producers /\ drv[t].producer_thread_
             THEN "prod_pushed"
             ELSE IF t \in Observers /\ drv[t].observer_thread_
             THEN "obs_got" ELSE "idle"

\* a call returns: locals die, the result stays visible to the caller
Return(t, opname, okv, resv, whyv) ==
    /\ pc' = [pc EXCEPT ![t] = Caller(t)]
    /\ loc' = [loc EXCEPT ![t] = [InitLoc EXCEPT !.op = opname, !.ok = okv,
                                                  !.res = resv, !.why = whyv,
                                                  !.index = loc[t].index]]

Logged(t, entry) == IF t = SeqThread THEN Append(log, entry) ELSE log

\* ------------------------------------------------------------------ push
\* queue.hpp:301-307: the call and the load of write_index_
PushCall(t) ==
    /\ pc[t] = "idle"
    /\ nPush' = nPush + 1
    /\ loc' = [loc EXCEPT ![t] = [InitLoc EXCEPT !.value = nPush + 1,
                                                  !.op = "push",
                                                  !.current_write = write_index_]]
    /\ pc' = [pc EXCEPT ![t] = "push_check"]
    /\ UNCHANGED <<queue, heap, accepted, popped, log, peek, drv>>
    /\ UNCHANGED pool

\* queue.hpp:308-327: next_write, the load of read_index_, the full test, and
\* the allocation of the node (which may throw: caught, push returns false)
PushCheck(t) ==
    /\ pc[t] = "push_check"
    /\ LET nw == PushNextWrite(loc[t].current_write) IN
       IF IsFull(nw, read_index_)
       THEN /\ Return(t, "push", FALSE, None, "full")
            /\ log' = Logged(t, [op |-> "push", v |-> loc[t].value, ok |-> FALSE,
                                 res |-> None, why |-> "full"])
            /\ UNCHANGED heap
       ELSE \E allocated \in BOOLEAN :
            IF allocated
            THEN /\ heap' = Alloc(heap, FreshNode, loc[t].value)
                 /\ loc' = [loc EXCEPT ![t].next_write = nw,
                                       ![t].new_data = FreshNode]
                 /\ pc' = [pc EXCEPT ![t] = "push_cas"]
                 /\ UNCHANGED log
            ELSE /\ Return(t, "push", FALSE, None, "alloc")
                 /\ log' = Logged(t, [op |-> "push", v |-> loc[t].value, ok |-> FALSE,
                                      res |-> None, why |-> "alloc"])
                 /\ UNCHANGED heap
    /\ UNCHANGED <<queue, nPush, accepted, popped, peek, drv>>
    /\ UNCHANGED pool

\* queue.hpp:330-336 and 343-350: compare_exchange_strong on the slot; on failure
\* the node is deleted and push returns false
PushCas(t) ==
    /\ pc[t] = "push_cas"
    /\ IF CasSucceeds(buffer_[loc[t].current_write])
       THEN /\ buffer_' = [buffer_ EXCEPT ![loc[t].current_write] = loc[t].new_data]
            /\ accepted' = Append(accepted, loc[t].value)
            /\ peek' = PeekAfterPush
            /\ UNCHANGED drv
            /\ pc' = [pc EXCEPT ![t] = "push_store"]
            /\ UNCHANGED <<heap, loc, log>>
       ELSE /\ heap' = Delete(heap, loc[t].new_data)
            /\ Return(t, "push", FALSE, None, "cas")
            /\ log' = Logged(t, [op |-> "push", v |-> loc[t].value, ok |-> FALSE,
                                 res |-> None, why |-> "cas"])
            /\ UNCHANGED <<buffer_, accepted, peek, drv>>
    /\ UNCHANGED <<Capacity, read_index_, write_index_, nPush, popped>>
    /\ UNCHANGED pool

\* queue.hpp:338-339 and 350: the store of write_index_, push returns true
PushStore(t) ==
    /\ pc[t] = "push_store"
    /\ write_index_' = loc[t].next_write
    /\ Return(t, "push", TRUE, None, "ok")
    /\ log' = Logged(t, [op |-> "push", v |-> loc[t].value, ok |-> TRUE,
                         res |-> None, why |-> "ok"])
    /\ UNCHANGED <<Capacity, buffer_, read_index_, heap, nPush, accepted, popped, peek, drv>>
    /\ UNCHANGED pool

\* ------------------------------------------------------------------ pop
\* queue.hpp:357-363: the call and the load of read_index_
PopCall(t) ==
    /\ pc[t] = "idle"
    /\ loc' = [loc EXCEPT ![t] = [InitLoc EXCEPT !.op = "pop",
                                                  !.current_read = read_index_]]
    /\ pc' = [pc EXCEPT ![t] = "pop_check"]
    /\ UNCHANGED <<queue, heap, nPush, accepted, popped, log, peek, drv>>
    /\ UNCHANGED pool

\* queue.hpp:366-371: the load of write_index_ and the empty test
PopCheck(t) ==
    /\ pc[t] = "pop_check"
    /\ IF IsEmpty(loc[t].current_read, write_index_)
       THEN /\ Return(t, "pop", FALSE, None, "empty")
            /\ log' = Logged(t, [op |-> "pop", v |-> 0, ok |-> FALSE,
                                 res |-> None, why |-> "empty"])
       ELSE /\ pc' = [pc EXCEPT ![t] = "pop_xchg"]
            /\ UNCHANGED <<loc, log>>
    /\ UNCHANGED <<queue, heap, nPush, accepted, popped, peek, drv>>
    /\ UNCHANGED pool

\* queue.hpp:373-379: exchange(nullptr) on the slot; a null slot returns nullopt
PopXchg(t) ==
    /\ pc[t] = "pop_xchg"
    /\ buffer_' = Exchange(buffer_, loc[t].current_read)
    /\ IF buffer_[loc[t].current_read] = Null
       THEN /\ Return(t, "pop", FALSE, None, "raced")
            /\ log' = Logged(t, [op |-> "pop", v |-> 0, ok |-> FALSE,
                                 res |-> None, why |-> "raced"])
       ELSE /\ loc' = [loc EXCEPT ![t].data = buffer_[loc[t].current_read]]
            /\ pc' = [pc EXCEPT ![t] = "pop_store"]
            /\ UNCHANGED log
    /\ peek' = PeekAfterPop
    /\ UNCHANGED drv
    /\ UNCHANGED <<Capacity, read_index_, write_index_, heap, nPush, accepted, popped>>
    /\ UNCHANGED pool

\* queue.hpp:381: the store of read_index_
PopStore(t) ==
    /\ pc[t] = "pop_store"
    /\ read_index_' = PopNextRead(loc[t].current_read)
    /\ pc' = [pc EXCEPT ![t] = "pop_take"]
    /\ peek' = PeekAfterPop
    /\ UNCHANGED drv
    /\ UNCHANGED <<Capacity, buffer_, write_index_, heap, loc, nPush, accepted, popped, log>>
    /\ UNCHANGED pool

\* queue.hpp:383-390: the payload is moved out, the node deleted, pop returns it.
\* A read_at that has loaded the pointer of this node and not yet copied the
\* payload now holds a dangling pointer.
PopTake(t) ==
    /\ pc[t] = "pop_take"
    /\ heap' = Delete(heap, loc[t].data)
    /\ popped' = Append(popped, Payload(heap, loc[t].data))
    /\ pc' = [pc EXCEPT ![t] = "idle"]
    /\ loc' = [u \in Threads |->
                 IF u = t
                 THEN [InitLoc EXCEPT !.op = "pop", !.ok = TRUE, !.why = "ok",
                                      !.res = Payload(heap, loc[t].data)]
                 ELSE IF pc[u] = "read_copy" /\ loc[u].data = loc[t].data
                      THEN [loc[u] EXCEPT !.dangling = TRUE]
                      ELSE loc[u]]
    /\ peek' = PeekAfterPop
    /\ UNCHANGED drv
    /\ log' = Logged(t, [op |-> "pop", v |-> 0, ok |-> TRUE,
                         res |-> Payload(heap, loc[t].data), why |-> "ok"])
    /\ UNCHANGED <<queue, nPush, accepted>>
    /\ UNCHANGED pool

\* ------------------------------------------------------------------ read_at
\* mutant: the slot is emptied by the read
AfterLoadClears(buf, i) == [buf EXCEPT ![i] = Null]

\* the slots after buffer_[i].load(), queue.hpp:411
AfterLoad(buf, i) == buf

\* mutant: the range test lets the offset Capacity through
OutOfRangeAboveCapacity(index) == index > Capacity

\* if (index >= Capacity), queue.hpp:405
OutOfRange(index) == index >= Capacity

\* mutant: the offset is left out of the target index
ReadTargetIgnoresIndex(current_read, index) == current_read % Capacity

\* target_index = (current_read + index) % Capacity, queue.hpp:410
ReadTarget(current_read, index) == (current_read + index) % Capacity

\* queue.hpp:399: read_at(index) is called
ReadCall(t, index) ==
    /\ pc[t] = "idle"
    /\ peek' = [peek EXCEPT ![t] =
                  [has |-> loc[t].op = "read_at", index |-> loc[t].index,
                   ok |-> loc[t].ok, res |-> loc[t].res,
                   popFree |-> peek[t].curPopFree, pushFree |-> peek[t].curPushFree,
                   curPopFree |-> TRUE, curPushFree |-> TRUE]]
    /\ pc' = [pc EXCEPT ![t] = "read_check"]
    /\ loc' = [loc EXCEPT ![t] = [InitLoc EXCEPT !.op = "read_at", !.index = index]]
    /\ UNCHANGED <<queue, heap, nPush, accepted, popped, log, drv>>
    /\ UNCHANGED pool

\* queue.hpp:400-409: the range test, then the load of read_index_
ReadCheck(t) ==
    /\ pc[t] = "read_check"
    /\ IF OutOfRange(loc[t].index)
       THEN /\ Return(t, "read_at", FALSE, None, "range")
            /\ log' = Logged(t, [op |-> "read_at", v |-> loc[t].index, ok |-> FALSE,
                                 res |-> None, why |-> "range"])
       ELSE /\ pc' = [pc EXCEPT ![t] = "read_load"]
            /\ loc' = [loc EXCEPT ![t].current_read = read_index_]
            /\ UNCHANGED log
    /\ UNCHANGED <<queue, heap, nPush, accepted, popped, peek, drv>>
    /\ UNCHANGED pool

\* queue.hpp:410-411: target_index and the load of the slot; seen is history:
\* the payload of the element that the slot holds at the load
ReadLoad(t) ==
    /\ pc[t] = "read_load"
    /\ LET target_index == ReadTarget(loc[t].current_read, loc[t].index) IN
       /\ loc' = [loc EXCEPT ![t].data = buffer_[target_index],
                              ![t].seen = IF buffer_[target_index] = Null THEN None
                                          ELSE Payload(heap, buffer_[target_index])]
       /\ buffer_' = AfterLoad(buffer_, target_index)
    /\ pc' = [pc EXCEPT ![t] = "read_copy"]
    /\ UNCHANGED <<Capacity, read_index_, write_index_, heap, nPush, accepted,
                   popped, log, peek, drv>>
    /\ UNCHANGED pool

\* queue.hpp:419: nullopt for a null pointer, else a copy of *data.  Copying
\* from a node that a pop has deleted since the load is undefined behaviour:
\* any payload may come out.
ReadCopy(t) ==
    /\ pc[t] = "read_copy"
    /\ IF loc[t].data = Null
       THEN /\ Return(t, "read_at", FALSE, None, "empty")
            /\ log' = Logged(t, [op |-> "read_at", v |-> loc[t].index, ok |-> FALSE,
                                 res |-> None, why |-> "empty"])
       ELSE IF ~loc[t].dangling
       THEN /\ Return(t, "read_at", TRUE, Payload(heap, loc[t].data), "ok")
            /\ log' = Logged(t, [op |-> "read_at", v |-> loc[t].index, ok |-> TRUE,
                                 res |-> Payload(heap, loc[t].data), why |-> "ok"])
       ELSE \E garbage \in 1 .. nPush :
            /\ Return(t, "read_at", TRUE, garbage, "freed")
            /\ log' = Logged(t, [op |-> "read_at", v |-> loc[t].index, ok |-> TRUE,
                                 res |-> garbage, why |-> "freed"])
    /\ UNCHANGED <<queue, heap, nPush, accepted, popped, peek, drv>>
    /\ UNCHANGED pool

\* ------------------------------------------------------------------ producer driver
\* mutant: the ceiling test lets the ceiling itself be doubled
NextBackoffOverCeiling(backoff) ==
    IF backoff <= BackoffCeiling THEN backoff * 2 ELSE backoff

\* if (backoff < 16384) backoff *= 2, queue_producer.hpp:158-160 and
\* queue_observer.hpp:79-81
NextBackoff(backoff) == IF backoff < BackoffCeiling THEN backoff * 2 ELSE backoff

\* mutant: start() spawns a thread whatever the flag was
ShouldSpawnAlways(was_running) == TRUE

\* if (!running_.exchange(true)), queue_producer.hpp:191 and
\* queue_observer.hpp:106
ShouldSpawn(was_running) == ~was_running

\* mutant: join() returns at once
JoinReturnsAtOnce(at) == TRUE

\* join() returns once the thread function has returned,
\* queue_producer.hpp:202 and queue_observer.hpp:117
JoinReturns(at) == at \in {"prod_done", "obs_done"}

\* mutant: the worker loop does not look at the flag
LoopTestAlways(running) == TRUE

\* while (running_.load(...)), queue_producer.hpp:117 and queue_observer.hpp:43
LoopTest(running) == running

\* mutant: every failed push counts as the first of its run
FirstFailureAlways(was_full) == TRUE

\* if (!was_full), queue_producer.hpp:135
FirstFailure(was_full) == ~was_full

\* the thread that owns the drivers is not blocked in a join()
ControllerFree == \A d \in Producers \cup Observers : ~drv[d].stopping

\* queue_producer.hpp:190-194: start(); the new thread enters produce() with
\* backoff = 1 and was_full = false (lines 114-115)
Start(d) ==
    /\ ControllerFree
    /\ IF ShouldSpawn(drv[d].running_)
       THEN /\ drv' = [drv EXCEPT ![d].running_ = TRUE,
                                  ![d].producer_thread_ = TRUE,
                                  ![d].backoff = 1,
                                  ![d].was_full = FALSE,
                                  ![d].fails = 0,
                                  ![d].workers = @ + 1,
                                  ![d].last = "start"]
            /\ pc' = [pc EXCEPT ![d] = "prod_loop"]
       ELSE /\ drv' = [drv EXCEPT ![d].last = "start_noop"]
            /\ UNCHANGED pc
    /\ UNCHANGED <<queue, heap, loc, nPush, accepted, popped, log, peek>>
    /\ UNCHANGED pool

\* queue_producer.hpp:199-202: stop() clears the flag and, when the flag was
\* set, goes on to join the worker thread
Stop(d) ==
    /\ ControllerFree
    /\ IF drv[d].running_
       THEN drv' = [drv EXCEPT ![d].running_ = FALSE,
                               ![d].stopping = drv[d].producer_thread_,
                               ![d].excused = IF drv[d].data = 0 THEN @
                                              ELSE @ \cup {drv[d].data},
                               ![d].last = "stop"]
       ELSE drv' = [drv EXCEPT ![d].last = "stop_noop"]
    /\ UNCHANGED <<queue, heap, pc, loc, nPush, accepted, popped, log, peek>>
    /\ UNCHANGED pool

\* queue_producer.hpp:202-204: join() returns once produce() has returned
StopJoin(d) ==
    /\ drv[d].stopping
    /\ JoinReturns(pc[d])
    /\ drv' = [drv EXCEPT ![d].stopping = FALSE, ![d].producer_thread_ = FALSE,
                          ![d].workers = @ - 1, ![d].last = "stopped"]
    /\ pc' = [pc EXCEPT ![d] = "idle"]
    /\ UNCHANGED <<queue, heap, loc, nPush, accepted, popped, log, peek>>
    /\ UNCHANGED pool

\* queue_producer.hpp:117: the loop test
ProdLoop(t) ==
    /\ pc[t] = "prod_loop"
    /\ pc' = [pc EXCEPT ![t] = IF LoopTest(drv[t].running_)
                                THEN "prod_gen" ELSE "prod_done"]
    /\ UNCHANGED <<queue, heap, loc, nPush, accepted, popped, log, peek, drv>>
    /\ UNCHANGED pool

\* queue_producer.hpp:123: T data = data_generator_(); the generator hands
\* out consecutive sequence numbers (main.cpp:63-64)
ProdGenerate(t) ==
    /\ pc[t] = "prod_gen"
    /\ nPush' = nPush + 1
    /\ drv' = [drv EXCEPT ![t].data = nPush + 1,
                          ![t].generated = Append(@, nPush + 1)]
    /\ pc' = [pc EXCEPT ![t] = "prod_push"]
    /\ UNCHANGED <<queue, heap, loc, accepted, popped, log, peek>>
    /\ UNCHANGED pool

\* queue_producer.hpp:124 and queue.hpp:301-307: queue_.push(std::move(data))
\* is called and loads write_index_
ProdPushCall(t) ==
    /\ pc[t] = "prod_push"
    /\ loc' = [loc EXCEPT ![t] = [InitLoc EXCEPT !.value = drv[t].data,
                                                  !.op = "push",
                                                  !.current_write = write_index_]]
    /\ pc' = [pc EXCEPT ![t] = "push_check"]
    /\ UNCHANGED <<queue, heap, nPush, accepted, popped, log, peek, drv>>
    /\ UNCHANGED pool

\* queue_producer.hpp:124-142: push has returned.  Success resets backoff and
\* was_full; the first failure of a run calls on_queue_full_ and continues
\* with the next iteration; a later failure goes on to the backoff spin.
ProdPushed(t) ==
    /\ pc[t] = "prod_pushed"
    /\ IF loc[t].ok
       THEN /\ drv' = [drv EXCEPT ![t].backoff = 1, ![t].was_full = FALSE,
                                  ![t].fails = 0]
            /\ pc' = [pc EXCEPT ![t] = "prod_loop"]
       ELSE IF FirstFailure(drv[t].was_full)
       THEN /\ drv' = [drv EXCEPT ![t].was_full = TRUE,
                                  ![t].full_calls = @ + 1,
                                  ![t].fails = @ + 1]
            /\ pc' = [pc EXCEPT ![t] = "prod_loop"]
       ELSE /\ pc' = [pc EXCEPT ![t] = "prod_spin"]
            /\ drv' = [drv EXCEPT ![t].fails = @ + 1]
    /\ UNCHANGED <<queue, heap, loc, nPush, accepted, popped, log, peek>>
    /\ UNCHANGED pool

\* queue_producer.hpp:149-160: the spin of backoff iterations, then the
\* doubling of backoff below the ceiling
ProdBackoff(t) ==
    /\ pc[t] = "prod_spin"
    /\ drv' = [drv EXCEPT ![t].backoff = NextBackoff(@)]
    /\ pc' = [pc EXCEPT ![t] = "prod_loop"]
    /\ UNCHANGED <<queue, heap, loc, nPush, accepted, popped, log, peek>>
    /\ UNCHANGED pool

\* ------------------------------------------------------------------ observer driver
\* mutant: every miss goes on to the backoff spin
FirstMissNever(was_empty) == FALSE

\* if (!was_empty), queue_observer.hpp:61
FirstMiss(was_empty) == ~was_empty

\* queue_observer.hpp:105-109: start(); the new thread enters observe() with
\* current_pos = 0, backoff = 1 and was_empty = false (lines 35-37)
ObsStart(d) ==
    /\ ControllerFree
    /\ IF ShouldSpawn(drv[d].running_)
       THEN /\ drv' = [drv EXCEPT ![d].running_ = TRUE,
                                  ![d].observer_thread_ = TRUE,
                                  ![d].current_pos = 0,
                                  ![d].backoff = 1,
                                  ![d].was_empty = FALSE,
                                  ![d].handled = <<>>,
                                  ![d].misses = 0,
                                  ![d].workers = @ + 1,
                                  ![d].last = "start"]
            /\ pc' = [pc EXCEPT ![d] = "obs_loop"]
       ELSE /\ drv' = [drv EXCEPT ![d].last = "start_noop"]
            /\ UNCHANGED pc
    /\ UNCHANGED <<queue, heap, loc, nPush, accepted, popped, log, peek>>
    /\ UNCHANGED pool

\* queue_observer.hpp:114-117: stop() clears the flag and, when the flag was
\* set, goes on to join the worker thread
ObsStop(d) ==
    /\ ControllerFree
    /\ IF drv[d].running_
       THEN drv' = [drv EXCEPT ![d].running_ = FALSE,
                               ![d].stopping = drv[d].observer_thread_,
                               ![d].last = "stop"]
       ELSE drv' = [drv EXCEPT ![d].last = "stop_noop"]
    /\ UNCHANGED <<queue, heap, pc, loc, nPush, accepted, popped, log, peek>>
    /\ UNCHANGED pool

\* queue_observer.hpp:116-119: join() returns once observe() has returned
ObsStopJoin(d) ==
    /\ drv[d].stopping
    /\ JoinReturns(pc[d])
    /\ drv' = [drv EXCEPT ![d].stopping = FALSE, ![d].observer_thread_ = FALSE,
                          ![d].workers = @ - 1, ![d].last = "stopped"]
    /\ pc' = [pc EXCEPT ![d] = "idle"]
    /\ UNCHANGED <<queue, heap, loc, nPush, accepted, popped, log, peek>>
    /\ UNCHANGED pool

\* queue_observer.hpp:43: the loop test
ObsLoop(t) ==
    /\ pc[t] = "obs_loop"
    /\ pc' = [pc EXCEPT ![t] = IF LoopTest(drv[t].running_)
                                THEN "obs_read" ELSE "obs_done"]
    /\ UNCHANGED <<queue, heap, loc, nPush, accepted, popped, log, peek, drv>>
    /\ UNCHANGED pool

\* queue_observer.hpp:44 and queue.hpp:399: queue_.read_at(current_pos) is called
ObsReadCall(t) ==
    /\ pc[t] = "obs_read"
    /\ loc' = [loc EXCEPT ![t] = [InitLoc EXCEPT !.op = "read_at",
                                                  !.index = drv[t].current_pos]]
    /\ pc' = [pc EXCEPT ![t] = "read_check"]
    /\ UNCHANGED <<queue, heap, nPush, accepted, popped, log, peek, drv>>
    /\ UNCHANGED pool

\* queue_observer.hpp:46-64: read_at has returned.  A value is passed to
\* on_data, the position advances, backoff and was_empty are reset; the first
\* miss of a run continues with the next iteration; a later miss goes on to
\* the backoff spin.
ObsGot(t) ==
    /\ pc[t] = "obs_got"
    /\ IF loc[t].ok
       THEN /\ drv' = [drv EXCEPT ![t].handled = Append(@, loc[t].res),
                                  ![t].current_pos = @ + 1,
                                  ![t].backoff = 1,
                                  ![t].was_empty = FALSE,
                                  ![t].misses = 0]
            /\ pc' = [pc EXCEPT ![t] = "obs_loop"]
       ELSE IF FirstMiss(drv[t].was_empty)
       THEN /\ drv' = [drv EXCEPT ![t].was_empty = TRUE,
                                  ![t].misses = IF @ = 0 THEN 1 ELSE 2]
            /\ pc' = [pc EXCEPT ![t] = "obs_loop"]
       ELSE /\ pc' = [pc EXCEPT ![t] = "obs_spin"]
            /\ drv' = [drv EXCEPT ![t].misses = IF @ = 0 THEN 1 ELSE 2]
    /\ UNCHANGED <<queue, heap, loc, nPush, accepted, popped, log, peek>>
    /\ UNCHANGED pool

\* queue_observer.hpp:70-81: the spin of backoff iterations, then the
\* doubling of backoff below the ceiling
ObsBackoff(t) ==
    /\ pc[t] = "obs_spin"
    /\ drv' = [drv EXCEPT ![t].backoff = NextBackoff(@)]
    /\ pc' = [pc EXCEPT ![t] = "obs_loop"]
    /\ UNCHANGED <<queue, heap, loc, nPush, accepted, popped, log, peek>>
    /\ UNCHANGED pool

\* ------------------------------------------------------------------ memory pool
\* mmap(nullptr, block_size_ * sizeof(T), ...): the start of a fresh region
\* that overlaps no mapped block, memory_pool.hpp:75
Mmap(blocks, block_size) == (Len(blocks) + 1) * (block_size * SizeofT)

\* current_block_ + current_index_ * sizeof(T) on a char*, memory_pool.hpp:47
SlotAddress(current_block, current_index) == current_block + current_index * SizeofT

\* mutant: the current block is taken for exhausted one slot late
BlockExhaustedLate(current_index, block_size) == current_index > block_size

\* if (current_index_ >= block_size_), memory_pool.hpp:44
BlockExhausted(current_index, block_size) == current_index >= block_size

\* mutant: the reused address stays in the free-set
EraseKeeps(freed, obj) == freed

\* freed_objects_.erase(freed_objects_.begin()), memory_pool.hpp:40
Erase(freed, obj) == freed \ {obj}

\* a MemoryPool after construction, memory_pool.hpp:17-20 and 73-82: the
\* first block is mapped.  live (the addresses handed out and not given
\* back), returned (every address ever handed out) and last (the last call
\* and its result) are history.
InitPool ==
    [block_size_ |-> BlockSize,
     blocks_ |-> <<Mmap(<<>>, BlockSize)>>,
     current_block_ |-> Mmap(<<>>, BlockSize),
     current_index_ |-> 0,
     freed_objects_ |-> {},
     live |-> {}, returned |-> {},
     last |-> [op |-> "none", obj |-> Null]]

\* allocate() has handed out address obj from the pool in state p
Handed(p, obj) ==
    [p EXCEPT !.live = @ \cup {obj}, !.returned = @ \cup {obj},
              !.last = [op |-> "allocate", obj |-> obj]]

\* memory_pool.hpp:36-48 with allocate_block, lines 73-82: an address of the
\* free-set (any: the set is unordered), else the next slot of the current
\* block, after a new block has been mapped when the current one is
\* exhausted; a failing mmap makes the call throw std::bad_alloc
Allocate ==
    /\ IF pool.freed_objects_ # {}
       THEN \E obj \in pool.freed_objects_ :
               pool' = Handed([pool EXCEPT !.freed_objects_ = Erase(@, obj)], obj)
       ELSE IF BlockExhausted(pool.current_index_, pool.block_size_)
       THEN \E mapped \in BOOLEAN :
               IF mapped
               THEN LET block == Mmap(pool.blocks_, pool.block_size_) IN
                    pool' = Handed([pool EXCEPT !.blocks_ = Append(@, block),
                                                !.current_block_ = block,
                                                !.current_index_ = 1],
                                   SlotAddress(block, 0))
               ELSE pool' = [pool EXCEPT !.last = [op |-> "bad_alloc", obj |-> Null]]
       ELSE pool' = Handed([pool EXCEPT !.current_index_ = @ + 1],
                           SlotAddress(pool.current_block_, pool.current_index_))
    /\ UNCHANGED <<queue, heap, pc, loc, nPush, accepted, popped, log, peek, drv>>

\* memory_pool.hpp:54-61: deallocate(obj) of a live object
Deallocate(obj) ==
    /\ pool' = [pool EXCEPT !.freed_objects_ = @ \cup {obj},
                            !.live = @ \ {obj},
                            !.last = [op |-> "deallocate", obj |-> obj]]
    /\ UNCHANGED <<queue, heap, pc, loc, nPush, accepted, popped, log, peek, drv>>

\* ------------------------------------------------------------------ specifications
\* LockFreeRingQueue(), queue.hpp:279-284, and idle threads
InitQueue(c) ==
    /\ Capacity = c
    /\ buffer_ = [i \in 0 .. (c - 1) |-> Null]
    /\ read_index_ = 0
    /\ write_index_ = 0
    /\ heap = <<>>
    /\ pc = [t \in Threads |-> "idle"]
    /\ loc = [t \in Threads |-> InitLoc]
    /\ nPush = 0
    /\ accepted = <<>>
    /\ popped = <<>>
    /\ log = <<>>
    /\ peek = [t \in Threads |-> InitPeek]
    /\ drv = [d \in Producers \cup Observers |->
                IF d \in Producers THEN InitDriver ELSE InitReader]
    /\ pool = InitPool

Init == InitQueue(SmallCapacity)

\* several producers and several consumers calling push and pop
Next ==
    \/ \E t \in Producers : nPush < MaxPush /\ PushCall(t)
    \/ \E t \in Producers : PushCheck(t)
    \/ \E t \in Producers : PushCas(t)
    \/ \E t \in Producers : PushStore(t)
    \/ \E t \in Consumers : PopCall(t)
    \/ \E t \in Consumers : PopCheck(t)
    \/ \E t \in Consumers : PopXchg(t)
    \/ \E t \in Consumers : PopStore(t)
    \/ \E t \in Consumers : PopTake(t)

Spec == Init /\ [][Next]_vars

\* one producer thread and one consumer thread
InitSPSC == InitQueue(LargeCapacity)

NextSPSC ==
    \/ nPush < MaxPushOne /\ PushCall("p1")
    \/ PushCheck("p1")
    \/ PushCas("p1")
    \/ PushStore("p1")
    \/ PopCall("c1")
    \/ PopCheck("c1")
    \/ PopXchg("c1")
    \/ PopStore("c1")
    \/ PopTake("c1")

SpecSPSC == InitSPSC /\ [][NextSPSC]_vars

\* one thread that calls push and pop one after the other
InitSeq == InitQueue(LargeCapacity)

NextSeq ==
    \/ Len(log) < MaxSeqOps /\ PushCall(SeqThread)
    \/ PushCheck(SeqThread)
    \/ PushCas(SeqThread)
    \/ PushStore(SeqThread)
    \/ Len(log) < MaxSeqOps /\ PopCall(SeqThread)
    \/ PopCheck(SeqThread)
    \/ PopXchg(SeqThread)
    \/ PopStore(SeqThread)
    \/ PopTake(SeqThread)

SpecSeq == InitSeq /\ [][NextSeq]_vars

\* one producer, one consumer and one thread that calls read_at
InitPeekRun == InitQueue(LargeCapacity)

NextPeek ==
    \/ nPush < MaxPushPeek /\ PushCall("p1")
    \/ PushCheck("p1")
    \/ PushCas("p1")
    \/ PushStore("p1")
    \/ PopCall("c1")
    \/ PopCheck("c1")
    \/ PopXchg("c1")
    \/ PopStore("c1")
    \/ PopTake("c1")
    \/ \E index \in 0 .. Capacity : ReadCall("o1", index)
    \/ ReadCheck("o1")
    \/ ReadLoad("o1")
    \/ ReadCopy("o1")

SpecPeek == InitPeekRun /\ [][NextPeek]_vars

\* one producer driver that is started and stopped, and one consumer
InitProd == InitQueue(SmallCapacity)

NextProd ==
    \/ Start("p1")
    \/ Stop("p1")
    \/ StopJoin("p1")
    \/ ProdLoop("p1")
    \/ nPush < MaxGenerate /\ ProdGenerate("p1")
    \/ ProdPushCall("p1")
    \/ PushCheck("p1")
    \/ PushCas("p1")
    \/ PushStore("p1")
    \/ ProdPushed("p1")
    \/ ProdBackoff("p1")
    \/ PopCall("c1")
    \/ PopCheck("c1")
    \/ PopXchg("c1")
    \/ PopStore("c1")
    \/ PopTake("c1")

SpecProd == InitProd /\ [][NextProd]_vars

\* two producers and a reader that is started and never stopped; no pop
InitStream == InitQueue(LargeCapacity)

ObserveStep(t) ==
    \/ ObsStart(t)
    \/ ObsLoop(t)
    \/ ObsReadCall(t)
    \/ ReadCheck(t)
    \/ ReadLoad(t)
    \/ ReadCopy(t)
    \/ ObsGot(t)
    \/ ObsBackoff(t)

NextStream ==
    \/ \E t \in Producers :
        \/ nPush < MaxPush /\ PushCall(t)
        \/ PushCheck(t)
        \/ PushCas(t)
        \/ PushStore(t)
    \/ ObserveStep("o1")

SpecStream == InitStream /\ [][NextStream]_vars

\* the reader's thread is scheduled fairly
FairStream == SpecStream /\ WF_vars(ObserveStep("o1"))

\* one producer, one consumer and a reader that is started and never stopped
InitWatch == InitQueue(LargeCapacity)

NextWatch ==
    \/ nPush < MaxPushPeek /\ PushCall("p1")
    \/ PushCheck("p1")
    \/ PushCas("p1")
    \/ PushStore("p1")
    \/ PopCall("c1")
    \/ PopCheck("c1")
    \/ PopXchg("c1")
    \/ PopStore("c1")
    \/ PopTake("c1")
    \/ ObserveStep("o1")

SpecWatch == InitWatch /\ [][NextWatch]_vars

\* one thread that calls allocate() and deallocate(p) on live addresses
InitPoolRun == InitQueue(SmallCapacity)

NextPool ==
    \/ Cardinality(pool.live) < MaxLive /\ Allocate
    \/ \E obj \in pool.live : Deallocate(obj)

SpecPool == InitPoolRun /\ [][NextPool]_vars

\* several producers and a single consumer
InitMPSC == InitQueue(LargeCapacity)

NextMPSC ==
    \/ \E t \in Producers : nPush < MaxPush /\ PushCall(t)
    \/ \E t \in Producers : PushCheck(t)
    \/ \E t \in Producers : PushCas(t)
    \/ \E t \in Producers : PushStore(t)
    \/ PopCall("c1")
    \/ PopCheck("c1")
    \/ PopXchg("c1")
    \/ PopStore("c1")
    \/ PopTake("c1")

SpecMPSC == InitMPSC /\ [][NextMPSC]_vars

\* a driver that one controlling thread starts and stops any number of
\* times: in one run a producer driver beside a consumer, in another a reader
\* beside a thread that pushes.  stop() of the producer is not called once
\* the generator has handed out its last value (the worker then has no
\* iteration left to finish).
InitCtl == InitQueue(SmallCapacity)

\* no start() or stop() of driver d has been called
Untouched(d) == drv[d].last = "none"

\* the steps of the worker thread of a producer driver
ProduceWork(t) ==
    \/ ProdLoop(t)
    \/ nPush < MaxGenerate /\ ProdGenerate(t)
    \/ ProdPushCall(t)
    \/ PushCheck(t)
    \/ PushCas(t)
    \/ PushStore(t)
    \/ ProdPushed(t)
    \/ ProdBackoff(t)

\* the steps of the worker thread of a reader
ObserveWork(t) ==
    \/ ObsLoop(t)
    \/ ObsReadCall(t)
    \/ ReadCheck(t)
    \/ ReadLoad(t)
    \/ ReadCopy(t)
    \/ ObsGot(t)
    \/ ObsBackoff(t)

NextCtl ==
    \/ Untouched("o1") /\ Start("p1")
    \/ Untouched("o1") /\ nPush < MaxGenerate /\ Stop("p1")
    \/ StopJoin("p1")
    \/ ProduceWork("p1")
    \/ ~Untouched("p1") /\ PopCall("c1")
    \/ PopCheck("c1")
    \/ PopXchg("c1")
    \/ PopStore("c1")
    \/ PopTake("c1")
    \/ Untouched("p1") /\ ObsStart("o1")
    \/ Untouched("p1") /\ ObsStop("o1")
    \/ ObsStopJoin("o1")
    \/ ObserveWork("o1")
    \/ ~Untouched("o1") /\ nPush < MaxPush /\ PushCall("p2")
    \/ PushCheck("p2")
    \/ PushCas("p2")
    \/ PushStore("p2")

SpecCtl == InitCtl /\ [][NextCtl]_vars

\* a driver that runs long enough for its backoff to reach the ceiling: in
\* one run a producer driver with no consumer (its pushes fail by allocation
\* failure and, once the queue is full, for good), in another a reader
\* beside a thread that pushes
InitSpin == InitQueue(LargeCapacity)

NextSpin ==
    \/ Untouched("o1") /\ Start("p1")
    \/ ProdLoop("p1")
    \/ nPush < MaxGenerateSpin /\ ProdGenerate("p1")
    \/ ProdPushCall("p1")
    \/ PushCheck("p1")
    \/ PushCas("p1")
    \/ PushStore("p1")
    \/ ProdPushed("p1")
    \/ ProdBackoff("p1")
    \/ Untouched("p1") /\ ObsStart("o1")
    \/ ObserveWork("o1")
    \/ ~Untouched("o1") /\ nPush < MaxPush /\ PushCall("p2")
    \/ PushCheck("p2")
    \/ PushCas("p2")
    \/ PushStore("p2")

SpecSpin == InitSpin /\ [][NextSpin]_vars

\* the worker threads and the threads blocked in join() are scheduled fairly
FairCtl ==
    /\ SpecCtl
    /\ WF_vars(ProduceWork("p1"))
    /\ WF_vars(ObserveWork("o1"))
    /\ WF_vars(StopJoin("p1"))
    /\ WF_vars(ObsStopJoin("o1"))

\* ================================================================== claims
Occupied == {i \in Slots : buffer_[i] # Null}

\* number of places of sequence q that hold x
Count(q, x) == Cardinality({i \in 1 .. Len(q) : q[i] = x})

\* the slots that hold payload v, and the pops that hold it between their
\* exchange and their return
SlotsHolding(v) == {i \in Slots : buffer_[i] # Null /\ heap[buffer_[i]] = v}
PopsHolding(v) == {t \in Threads : /\ pc[t] \in {"pop_store", "pop_take"}
                                   /\ heap[loc[t].data] = v}

\* C1: the number of non-empty slots is at most Capacity - 1 in every state
\* reachable by interleaved push and pop calls (stated as the claim states it;
\* the code violates it).
C1_CapacityInvariant == Cardinality(Occupied) <= Capacity - 1

\* C2: no double delivery: every payload whose push was accepted is, at every
\* moment, in exactly one place: still in one slot, in the hands of one pop
\* that has taken it and not yet returned, or returned by exactly one pop;
\* a payload that was not accepted is returned by no pop.
C2_NoDoubleDelivery ==
    \A v \in 1 .. nPush :
        IF Count(accepted, v) > 0
        THEN /\ Count(accepted, v) = 1
             /\ Cardinality(SlotsHolding(v)) + Cardinality(PopsHolding(v))
                    + Count(popped, v) = 1
        ELSE Count(popped, v) = 0

\* C2 witness: two consumers raced for one element: one pop has returned a
\* payload and the other found the slot already emptied.
C2_Witness ==
    \E a, b \in Consumers :
        /\ a # b
        /\ pc[a] = "idle" /\ loc[a].why = "ok" /\ loc[a].res # None
        /\ pc[b] = "idle" /\ loc[b].why = "raced"

\* C5: every store to write_index_ by push sets it to (write_index_ + 1) mod
\* Capacity and every store to read_index_ by pop sets it to (read_index_ + 1)
\* mod Capacity (stated as the claim states it; the code violates it).
C5_IndexMonotonic ==
    [][\A t \in Threads :
          /\ (pc[t] = "push_store" /\ pc'[t] # "push_store")
                => write_index_' = (write_index_ + 1) % Capacity
          /\ (pc[t] = "pop_store" /\ pc'[t] # "pop_store")
                => read_index_' = (read_index_ + 1) % Capacity]_vars

\* C6: a push whose full test finds (current_write + 1) mod Capacity equal to
\* read_index_ returns false at that step, and neither its call nor its test
\* changes a slot, read_index_ or write_index_.
C6_PushOnFull ==
    [][\A t \in Threads :
          /\ (pc[t] = "idle" /\ pc'[t] = "push_check")
                => UNCHANGED <<buffer_, read_index_, write_index_>>
          /\ (/\ pc[t] = "push_check" /\ pc'[t] # "push_check"
              /\ (loc[t].current_write + 1) % Capacity = read_index_)
                => /\ pc'[t] = "idle"
                   /\ loc'[t].op = "push" /\ loc'[t].ok = FALSE
                   /\ UNCHANGED <<buffer_, read_index_, write_index_>>]_vars

\* C6 witness: a push has found the queue full and returned false.
C6_Witness ==
    \E t \in Threads : pc[t] = "idle" /\ loc[t].op = "push" /\ loc[t].why = "full"

\* C7: a pop whose empty test finds current_read equal to write_index_ returns
\* nullopt at that step, and neither its call nor its test changes a slot,
\* read_index_ or write_index_.
C7_PopOnEmpty ==
    [][\A t \in Threads :
          /\ (pc[t] = "idle" /\ pc'[t] = "pop_check")
                => UNCHANGED <<buffer_, read_index_, write_index_>>
          /\ (/\ pc[t] = "pop_check" /\ pc'[t] # "pop_check"
              /\ loc[t].current_read = write_index_)
                => /\ pc'[t] = "idle"
                   /\ loc'[t].op = "pop" /\ loc'[t].res = None
                   /\ loc'[t].ok = FALSE
                   /\ UNCHANGED <<buffer_, read_index_, write_index_>>]_vars

\* C7 witness: a pop has found the queue empty and returned nullopt.
C7_Witness ==
    \E t \in Threads : pc[t] = "idle" /\ loc[t].op = "pop" /\ loc[t].why = "empty"

\* the accepted payloads whose push has returned true
Returned ==
    SubSeq(accepted, 1,
           Len(accepted) - Cardinality({t \in Threads : pc[t] = "push_store"}))

\* C3: with one producer and one consumer the payloads returned by pop are a
\* prefix of the payloads whose push returned true, in the same order.
C3_FifoOrder ==
    /\ Len(popped) <= Len(Returned)
    /\ \A i \in 1 .. Len(popped) : popped[i] = Returned[i]

\* C3 witness: more elements than the queue has slots have been popped, so a
\* slot has been filled and emptied a second time after the indices wrapped.
C3_Witness == Len(popped) > Capacity

\* number of elements in the queue after the first k calls of the log
LogSize(k) ==
    Cardinality({i \in 1 .. k : log[i].op = "push" /\ log[i].ok})
        - Cardinality({i \in 1 .. k : log[i].op = "pop" /\ log[i].ok})

\* C8 as stated: push(v) directly followed by pop() makes the pop return v,
\* whatever the queue held before the push (the code violates it, also when
\* no allocation fails).
C8_RoundTripAnyQueue ==
    \A i \in 1 .. (Len(log) - 1) :
        (log[i].op = "push" /\ log[i].why # "alloc" /\ log[i + 1].op = "pop")
            => (log[i + 1].ok /\ log[i + 1].res = log[i].v)

\* C8 amended: push(v) on an empty queue whose allocation does not fail
\* returns true, and a pop() directly after it returns v.
C8_RoundTripOnEmpty ==
    \A i \in 1 .. (Len(log) - 1) :
        (/\ log[i].op = "push" /\ log[i + 1].op = "pop"
         /\ LogSize(i - 1) = 0 /\ log[i].why # "alloc")
            => (log[i].ok /\ log[i + 1].ok /\ log[i + 1].res = log[i].v)

\* C8 witness: after earlier traffic has emptied the queue again, a push and
\* the pop directly after it have both succeeded.
C8_Witness ==
    \E i \in 3 .. (Len(log) - 1) :
        /\ log[i].op = "push" /\ log[i].ok /\ LogSize(i - 1) = 0
        /\ log[i + 1].op = "pop" /\ log[i + 1].ok

AllPushes(k) == \A i \in 1 .. k : log[i].op = "push" /\ log[i].why # "alloc"

\* C9: in a single-threaded run from the empty queue in which no allocation
\* fails, the k-th of consecutive pushes returns true exactly for k <=
\* Capacity - 1; after Capacity pushes a pop returns the first value pushed,
\* the next push returns true and the push after that returns false.
C9_UsableCapacity ==
    /\ \A k \in 1 .. Len(log) : AllPushes(k) => (log[k].ok <=> k <= Capacity - 1)
    /\ (Len(log) >= Capacity + 1 /\ AllPushes(Capacity) /\ log[Capacity + 1].op = "pop")
        => /\ log[Capacity + 1].ok
           /\ log[Capacity + 1].res = log[1].v
           /\ (/\ Len(log) >= Capacity + 2
               /\ log[Capacity + 2].op = "push" /\ log[Capacity + 2].why # "alloc")
                => /\ log[Capacity + 2].ok
                   /\ (/\ Len(log) >= Capacity + 3
                       /\ log[Capacity + 3].op = "push"
                       /\ log[Capacity + 3].why # "alloc")
                        => ~log[Capacity + 3].ok

\* C9 witness: the whole scenario has run: Capacity pushes, a pop, a push that
\* succeeded and a push that found the queue full.
C9_Witness ==
    /\ Len(log) = Capacity + 3
    /\ AllPushes(Capacity)
    /\ log[Capacity + 1].op = "pop"
    /\ log[Capacity + 2].op = "push" /\ log[Capacity + 2].ok
    /\ log[Capacity + 3].op = "push" /\ log[Capacity + 3].why = "full"

\* a read_at call of thread t returns in this step
ReadReturns(t) ==
    pc[t] \in {"read_check", "read_copy"} /\ pc'[t] = "idle"

\* a step of a read_at call of thread t
ReadStep(t) ==
    \/ pc[t] \in {"read_check", "read_load", "read_copy"} /\ pc'[t] # pc[t]
    \/ pc[t] = "idle" /\ pc'[t] = "read_check"

\* C10 as stated: no step of read_at changes a slot, read_index_ or
\* write_index_, and a read_at call returns what the same thread's previous
\* read_at call with the same offset returned when no pop has written the
\* queue since that previous call began (the code violates the second part).
C10_PeekStableNoPop ==
    [][\A t \in Threads :
          /\ ReadStep(t) => UNCHANGED <<buffer_, read_index_, write_index_>>
          /\ (/\ ReadReturns(t)
              /\ peek'[t].has /\ peek'[t].index = loc'[t].index
              /\ peek'[t].popFree)
                => (loc'[t].ok = peek'[t].ok /\ loc'[t].res = peek'[t].res)]_vars

\* C10 amended: no step of read_at changes a slot, read_index_ or
\* write_index_, and a read_at call returns what the same thread's previous
\* read_at call with the same offset returned when neither a pop nor a push
\* has written the queue since that previous call began.
C10_PeekStable ==
    [][\A t \in Threads :
          /\ ReadStep(t) => UNCHANGED <<buffer_, read_index_, write_index_>>
          /\ (/\ ReadReturns(t)
              /\ peek'[t].has /\ peek'[t].index = loc'[t].index
              /\ peek'[t].popFree /\ peek'[t].pushFree)
                => (loc'[t].ok = peek'[t].ok /\ loc'[t].res = peek'[t].res)]_vars

\* C10 witness: after pops and pushes have gone by, two read_at calls with the
\* same offset and no write to the queue between them have both returned the
\* same element.
C10_Witness ==
    \E t \in Observers :
        /\ pc[t] = "idle" /\ loc[t].op = "read_at" /\ loc[t].ok
        /\ peek[t].has /\ peek[t].index = loc[t].index
        /\ peek[t].popFree /\ peek[t].pushFree
        /\ peek[t].ok /\ peek[t].res = loc[t].res
        /\ Len(popped) >= 1

\* the values the queue has accepted
AcceptedSet == {accepted[i] : i \in 1 .. Len(accepted)}

\* C4 as stated: a producer driver never drops a generated value: every value
\* its generator has handed out, except the newest one (still being offered)
\* and the values in flight at a stop(), has been accepted by the queue, so
\* the accepted values are the generated ones with none skipped (the code
\* violates it: a failed push is followed by a new generated value).
C4_NeverDropsGenerated ==
    \A d \in Producers :
        \A i \in 1 .. (Len(drv[d].generated) - 1) :
            \/ drv[d].generated[i] \in AcceptedSet
            \/ drv[d].generated[i] \in drv[d].excused

\* the values a reader has passed to on_data
HandledSet(d) == {drv[d].handled[i] : i \in 1 .. Len(drv[d].handled)}

\* the values passed to on_data are the first accepted values, in the order
\* in which the queue accepted them, each once
HandledIsPrefix(d) ==
    /\ Len(drv[d].handled) <= Len(accepted)
    /\ \A i \in 1 .. Len(drv[d].handled) : drv[d].handled[i] = accepted[i]

\* C11: with producers, a running reader and no pop, on_data is invoked once
\* for every accepted element, in push order, none skipped and none twice,
\* and under fair scheduling of the reader every accepted element is
\* eventually passed to on_data.
C11_ObserverStreams ==
    /\ [](\A d \in Observers : HandledIsPrefix(d))
    /\ \A v \in 1 .. MaxPush :
          (v \in AcceptedSet) ~> (v \in HandledSet("o1"))

\* C11 witness: the reader has handled every element of a queue that the
\* producers have filled.
C11_Witness ==
    /\ Len(accepted) = Capacity - 1
    /\ drv["o1"].handled = accepted

\* the place of an accepted value in the order of acceptance
AcceptedIndex(v) == CHOOSE i \in 1 .. Len(accepted) : accepted[i] = v

\* C12 as stated: beside a consumer, a reader that is not a lap behind (here:
\* no slot has been filled a second time) handles consecutive elements: the
\* element handled after the k-th accepted one is the (k+1)-th accepted one
\* (the code violates it: a pop moves read_index_, and the reader's next
\* read_at(current_pos) lands one slot further on).
C12_ObserverVisitsConsecutive ==
    \A d \in Observers :
        Len(accepted) <= Capacity =>
            \A i \in 1 .. (Len(drv[d].handled) - 1) :
                /\ drv[d].handled[i] \in AcceptedSet
                /\ drv[d].handled[i + 1] \in AcceptedSet
                /\ AcceptedIndex(drv[d].handled[i + 1])
                      = AcceptedIndex(drv[d].handled[i]) + 1

\* the producer worker of driver d handles a failed push in this step
HandlesFailure(d) ==
    pc[d] = "prod_pushed" /\ pc'[d] # "prod_pushed" /\ ~loc[d].ok

\* C13: on_queue_full_ is called exactly on the first failed push after the
\* worker started or after a push of it succeeded: a step calls it (once) if
\* and only if it handles a failed push with no failed push before it in
\* the run.
C13_EdgeTriggeredFull ==
    [][\A d \in Producers :
          drv'[d].full_calls =
              drv[d].full_calls
                + (IF HandlesFailure(d) /\ drv[d].fails = 0 THEN 1 ELSE 0)]_vars

\* C13 witness: the callback has been called in two runs of failures, and the
\* second run is two failures long.
C13_Witness ==
    \E d \in Producers :
        /\ drv[d].full_calls = 2
        /\ drv[d].fails = 2
        /\ Len(accepted) >= 1

\* the worker of driver d is at its loop test
AtLoopTest(d) == pc[d] \in {"prod_loop", "obs_loop"}

\* the worker of driver d has left its loop
LoopLeft(d) == pc[d] \in {"prod_done", "obs_done"}

\* C14: once stop() has cleared the flag, the worker begins no further
\* iteration (its next loop test leaves the loop), and under fair scheduling
\* the join completes, whether the queue is full, empty or neither.
C14_StopTerminates ==
    /\ [][\A d \in Producers \cup Observers :
            (drv[d].stopping /\ AtLoopTest(d) /\ pc'[d] # pc[d]) => LoopLeft(d)']_vars
    /\ \A d \in {"p1", "o1"} : drv[d].stopping ~> ~drv[d].stopping

\* C14 witness: stop() of a producer whose pushes fail on a full queue, and
\* of a reader that has spun on an empty position, has returned.
C14_Witness ==
    \/ drv["p1"].last = "stopped" /\ drv["p1"].fails >= 2
    \/ drv["o1"].last = "stopped" /\ drv["o1"].backoff >= 2

Drivers == Producers \cup Observers

\* the joinable thread object of driver d
ThreadOf(d) == IF d \in Producers THEN drv[d].producer_thread_
               ELSE drv[d].observer_thread_

\* a start() or stop() call on driver d that finds nothing to do is made in
\* this step (kind is "start_noop" or "stop_noop")
CallsWithoutEffect(d, kind) == drv'[d].last = kind /\ drv[d].last # kind

\* nothing but the record of the last call of driver d changes in this step
OnlyLastChanges(d, kind) ==
    /\ drv' = [drv EXCEPT ![d].last = kind]
    /\ UNCHANGED <<queue, heap, pc, loc, nPush, accepted, popped>>

\* C15: start() on a driver whose flag is set spawns no thread and changes
\* nothing; a thread is spawned only by a start() that finds the flag clear
\* and no worker; so a driver never has more than one worker thread.
C15_StartOnRunningIsNoOp ==
    /\ [](\A d \in Drivers :
            /\ drv[d].workers <= 1
            /\ (drv[d].workers = 1) = ThreadOf(d))
    /\ [][\A d \in Drivers :
            /\ CallsWithoutEffect(d, "start_noop")
                  => drv[d].running_ /\ OnlyLastChanges(d, "start_noop")
            /\ drv'[d].workers > drv[d].workers
                  => ~drv[d].running_ /\ drv[d].workers = 0]_vars

\* C15 witness: start() has been called on a running producer driver whose
\* worker has pushed, and the driver has one worker.
C15_Witness ==
    /\ drv["p1"].last = "start_noop"
    /\ drv["p1"].workers = 1
    /\ Len(accepted) >= 1

\* C16: when stop() returns on a running driver, the flag is clear, the
\* worker has left its loop and has been joined, and no worker thread
\* exists; stop() on a driver whose flag is clear changes nothing; a start()
\* that follows brings the driver back to running with one worker.
C16_StopIsIdempotent ==
    [][\A d \in Drivers :
          /\ (drv'[d].last = "stopped" /\ drv[d].last # "stopped")
                => /\ LoopLeft(d)
                   /\ ~drv'[d].running_ /\ ~ThreadOf(d)' /\ drv'[d].workers = 0
                   /\ pc'[d] = "idle"
          /\ CallsWithoutEffect(d, "stop_noop")
                => ~drv[d].running_ /\ OnlyLastChanges(d, "stop_noop")
          /\ (drv'[d].last = "start" /\ drv[d].last # "start")
                => /\ drv'[d].running_ /\ ThreadOf(d)' /\ drv'[d].workers = 1
                   /\ AtLoopTest(d)']_vars

\* C16 witness: a producer driver that was stopped with a value in flight
\* has been started again and is running with one worker.
C16_Witness ==
    /\ drv["p1"].last = "start"
    /\ drv["p1"].excused # {}
    /\ drv["p1"].running_
    /\ drv["p1"].workers = 1

\* an allocate() call returns an address in this step
AllocateReturns == pool'.last.op = "allocate" /\ pool' # pool

\* C17: every address the pool has returned is live or in the free-set and
\* never both, and allocate() never returns an address that is live.
C17_PoolAddresses ==
    /\ [](/\ pool.returned = pool.live \cup pool.freed_objects_
          /\ pool.live \cap pool.freed_objects_ = {})
    /\ [][AllocateReturns => pool'.last.obj \notin pool.live]_vars

\* C17 witness: with two blocks mapped, allocate() has just reused one of
\* several freed addresses while other objects are live.
C17_Witness ==
    /\ pool.last.op = "allocate"
    /\ pool.freed_objects_ # {}
    /\ Cardinality(pool.live) >= 2
    /\ Len(pool.blocks_) >= 2

\* the addresses of the block that starts at address block
BlockRange(block) == block .. (block + pool.block_size_ * SizeofT - 1)

\* the addresses of a block that the pool has returned so far
UsedOf(block) == pool.returned \cap BlockRange(block)

C19_ReadAtContract ==
    [][\A t \in Threads :
          /\ (ReadReturns(t) /\ loc[t].index >= Capacity)
                => /\ pc[t] = "read_check"
                   /\ ~loc'[t].ok /\ loc'[t].res = None
                   /\ UNCHANGED <<buffer_, read_index_, write_index_>>
          /\ (pc[t] = "read_check" /\ pc'[t] = "read_load")
                => loc[t].index < Capacity /\ loc'[t].current_read = read_index_
          /\ (pc[t] = "read_load" /\ pc'[t] = "read_copy")
                => loc'[t].data
                     = buffer_[(loc[t].current_read + loc[t].index) % Capacity]
          /\ (ReadReturns(t) /\ loc[t].index < Capacity)
                => /\ pc[t] = "read_copy"
                   /\ IF loc[t].data = Null
                      THEN ~loc'[t].ok /\ loc'[t].res = None
                      ELSE loc'[t].ok /\ loc'[t].res = loc[t].seen]_vars

\* no push, pop or read_at call is in progress
NoOperationInProgress == \A t \in Threads : pc[t] = "idle"

\* C20 as stated: the queue never gets stuck: whenever no operation is in
\* progress and read_index_ equals write_index_ (every pop then returns
\* nullopt), the slot at write_index_ is empty, so the next push can fill it
\* (the code violates this).
C20_NeverStuck ==
    (NoOperationInProgress /\ read_index_ = write_index_)
        => buffer_[write_index_] = Null

\* the positions read_index_, read_index_ + 1, ..., write_index_ - 1 (mod Capacity)
IndexWindow ==
    {(read_index_ + k) % Capacity :
        k \in 0 .. ((write_index_ - read_index_ + Capacity) % Capacity) - 1}

\* the slots that hold an element
OccupiedSlots == {i \in Slots : buffer_[i] # Null}

\* C21 as stated: whenever no push or pop is in progress, the occupied slots
\* are exactly the positions from read_index_ up to write_index_ - 1 (the
\* code violates this with several producers).
C21_OccupancyMatchesWindow ==
    NoOperationInProgress => OccupiedSlots = IndexWindow

\* a pop of thread t that has passed the empty test finds its slot empty and
\* returns nullopt in this step
PopMisses(t) ==
    pc[t] = "pop_xchg" /\ pc'[t] = "idle" /\ buffer_[loc[t].current_read] = Null

\* consumer u has taken an element out of a slot
HasTaken(u) ==
    loc[u].op = "pop" /\ (pc[u] \in {"pop_store", "pop_take"} \/ loc[u].ok)

\* C22 as stated: a pop that has passed the empty test finds its slot empty
\* only when another consumer has taken an element; with a single consumer a
\* pop that has passed the empty test always obtains an element (the code
\* violates this with two producers).
C22_PopMissOnlyByRace ==
    [][\A t \in Consumers :
          PopMisses(t) => \E u \in Consumers \ {t} : HasTaken(u)]_vars

\* read_at of thread t copies the payload of the node it has loaded in this step
ReadCopies(t) ==
    pc[t] = "read_copy" /\ pc'[t] # "read_copy" /\ loc[t].data # Null

\* C23 as stated: when read_at copies the payload of the element whose
\* pointer it has loaded from a slot, no pop has deleted that element (the
\* code violates this).
C23_NoCopyFromFreed ==
    [][\A t \in Threads : ReadCopies(t) => ~loc[t].dangling]_vars

PushPositions == {"push_check", "push_cas", "push_store"}

\* a push call of thread t returns in this step
PushReturns(t) == pc[t] \in PushPositions /\ pc'[t] \notin PushPositions

\* the compare-and-swap of the push of thread t replaces the empty slot at
\* the write index the push has loaded by its node in this step
CasReplacesEmpty(t) ==
    /\ pc[t] = "push_cas"
    /\ buffer_[loc[t].current_write] = Null
    /\ buffer_' = [buffer_ EXCEPT ![loc[t].current_write] = loc[t].new_data]

\* C24: a push that returns false has changed no slot and no index in any
\* of its steps and the node it allocated is deleted; a push returns true
\* exactly when its compare-and-swap replaced an empty slot by its node; and
\* no step of a push changes a slot that holds an element.
C24_FailedPushChangesNothing ==
    [][\A t \in Threads :
          /\ (PushReturns(t) /\ ~loc'[t].ok)
                => /\ pc[t] \in {"push_check", "push_cas"}
                   /\ UNCHANGED <<buffer_, read_index_, write_index_>>
                   /\ loc[t].new_data # Null => loc[t].new_data \notin DOMAIN heap'
                   /\ DOMAIN heap' = (DOMAIN heap) \ {loc[t].new_data}
          /\ (pc[t] = "push_check" /\ pc'[t] # "push_check")
                => UNCHANGED <<buffer_, read_index_, write_index_>>
          /\ (pc[t] = "push_cas" /\ pc'[t] # "push_cas")
                => /\ (pc'[t] = "push_store") = CasReplacesEmpty(t)
                   /\ CasReplacesEmpty(t) \/ UNCHANGED buffer_
          /\ (PushReturns(t) /\ loc'[t].ok) => pc[t] = "push_store"
          /\ (pc[t] = "push_store" /\ pc'[t] # "push_store")
                => PushReturns(t) /\ loc'[t].ok /\ UNCHANGED buffer_]_vars

\* C24 witness: a push has lost its compare-and-swap (the slot was occupied)
\* and returned false while the element in the slot is still there, and
\* other pushes have succeeded.
C24_Witness ==
    \E t \in Producers :
        /\ pc[t] = "idle" /\ loc[t].op = "push" /\ loc[t].why = "cas"
        /\ Len(accepted) >= 2
        /\ OccupiedSlots # {}

\* the producer worker of driver d performs its backoff spin in this step
ProdSpins(d) == pc[d] = "prod_spin" /\ pc'[d] = "prod_loop"

\* C25 as stated: after each failed push, the first of a run included, the
\* producer worker goes on to the backoff spin before it begins another
\* iteration (the code does not spin after the first failure of a run).
C25_BackoffAfterEveryFailure ==
    [][\A d \in Producers : HandlesFailure(d) => pc'[d] = "prod_spin"]_vars

\* C25 amended: after each failed push that is not the first failure of a
\* run the producer worker goes on to the backoff spin before it begins
\* another iteration; after the first failure of a run it begins the next
\* iteration at once, with backoff unchanged; the spin is entered from a
\* failed push only.
C25_BackoffAfterRepeatedFailure ==
    [][\A d \in Producers :
          /\ HandlesFailure(d)
                => /\ drv'[d].backoff = drv[d].backoff
                   /\ pc'[d] = IF drv[d].fails = 0 THEN "prod_loop" ELSE "prod_spin"
          /\ (pc'[d] = "prod_spin" /\ pc[d] # "prod_spin") => HandlesFailure(d)
          /\ pc[d] = "prod_spin" => (pc'[d] = "prod_spin" \/ ProdSpins(d))]_vars

\* C25 witness: in a run of three failures the worker has spun after the
\* second and is about to spin after the third.
C25_Witness ==
    \E d \in Producers :
        /\ pc[d] = "prod_spin"
        /\ drv[d].fails = 3
        /\ drv[d].backoff = 2

\* the worker of reader d handles the result of a read_at call in this step
ObsHandles(d) == pc[d] = "obs_got" /\ pc'[d] # "obs_got"

\* C26: on a successful read_at the handler gets the value once and the
\* cursor advances by one; on a miss neither changes; the first miss after a
\* success or after start is followed by the next iteration at once, a
\* later miss by the backoff spin, which is entered from nowhere else; every
\* read_at call of the worker is made at the cursor; between two results the
\* cursor and the handler's calls do not change.
C26_ObserverMissHandling ==
    [][\A d \in Observers :
          /\ (ObsHandles(d) /\ loc[d].ok)
                => /\ drv'[d].current_pos = drv[d].current_pos + 1
                   /\ drv'[d].handled = Append(drv[d].handled, loc[d].res)
                   /\ pc'[d] = "obs_loop"
          /\ (ObsHandles(d) /\ ~loc[d].ok)
                => /\ drv'[d].current_pos = drv[d].current_pos
                   /\ drv'[d].handled = drv[d].handled
                   /\ drv'[d].backoff = drv[d].backoff
                   /\ pc'[d] = IF drv[d].misses = 0 THEN "obs_loop" ELSE "obs_spin"
          /\ (pc'[d] = "obs_spin" /\ pc[d] # "obs_spin")
                => ObsHandles(d) /\ ~loc[d].ok /\ drv[d].misses >= 1
          /\ (pc[d] = "obs_read" /\ pc'[d] # "obs_read")
                => pc'[d] = "read_check" /\ loc'[d].index = drv[d].current_pos
          /\ (~ObsHandles(d) /\ drv[d].running_)
                => /\ drv'[d].current_pos = drv[d].current_pos
                   /\ drv'[d].handled = drv[d].handled]_vars

\* C26 witness: after two successful reads the worker has missed twice at
\* position 2 and is in its backoff spin.
C26_Witness ==
    \E d \in Observers :
        /\ pc[d] = "obs_spin"
        /\ drv[d].current_pos = 2
        /\ Len(drv[d].handled) = 2
        /\ drv[d].misses = 2

\* the powers of two from 1 to the ceiling
BackoffValues == {2 ^ k : k \in 0 .. 14}

\* the worker of reader d performs its backoff spin in this step
ObsSpins(d) == pc[d] = "obs_spin" /\ pc'[d] = "obs_loop"

\* the worker of driver d handles a successful push or read in this step
HandlesSuccess(d) ==
    pc[d] \in {"prod_pushed", "obs_got"} /\ pc'[d] # pc[d] /\ loc[d].ok

\* a start() call gives driver d a new worker in this step
Spawns(d) == drv'[d].workers > drv[d].workers

\* C27: the backoff of a producer worker and of a reader worker is always a
\* power of two between 1 and 16384; a backoff spin doubles it while it is
\* below 16384 and leaves it at 16384; a successful push or read resets it
\* to 1; nothing else changes it but the start of a new worker.
C27_BackoffBounds ==
    /\ [](\A d \in Drivers :
            /\ drv[d].backoff \in BackoffValues
            /\ 1 <= drv[d].backoff /\ drv[d].backoff <= BackoffCeiling)
    /\ [][\A d \in Drivers :
            /\ (ProdSpins(d) \/ ObsSpins(d))
                  => drv'[d].backoff
                       = IF drv[d].backoff < BackoffCeiling
                         THEN 2 * drv[d].backoff ELSE BackoffCeiling
            /\ HandlesSuccess(d) => drv'[d].backoff = 1
            /\ drv'[d].backoff # drv[d].backoff
                  => (ProdSpins(d) \/ ObsSpins(d) \/ HandlesSuccess(d) \/ Spawns(d))]_vars

\* C27 witness: a producer worker whose backoff is at the ceiling is in its
\* backoff spin once more, or a reader worker is.
C27_Witness ==
    \/ pc["p1"] = "prod_spin" /\ drv["p1"].backoff = BackoffCeiling
                               /\ Len(accepted) >= 1
    \/ pc["o1"] = "obs_spin" /\ drv["o1"].backoff = BackoffCeiling
                              /\ Len(drv["o1"].handled) >= 1

\* C28: the cursor of a reader worker never exceeds Capacity: it counts the
\* handler calls of the worker, and a read_at call of the worker returns a
\* value only at a cursor below Capacity; so a worker calls the handler at
\* most Capacity times.
C28_CursorBound ==
    /\ [](\A d \in Observers :
            /\ drv[d].current_pos <= Capacity
            /\ Len(drv[d].handled) = drv[d].current_pos
            /\ Len(drv[d].handled) <= Capacity)
    /\ [][\A d \in Observers :
            (ObsHandles(d) /\ loc[d].ok) => drv[d].current_pos < Capacity]_vars

\* C28 witness: beside a producer and a consumer the worker has called the
\* handler Capacity times, and its read_at at the cursor Capacity has
\* returned nothing.
C28_Witness ==
    \E d \in Observers :
        /\ drv[d].current_pos = Capacity
        /\ Len(drv[d].handled) = Capacity
        /\ pc[d] = "obs_got" /\ loc[d].index = Capacity /\ ~loc[d].ok
        /\ Len(popped) >= 1

====
